---- MODULE Spec2Model ----
(***************************************************************************)
(* Model of assets/Script/sync/SyncUtil.ts: the per-instance change        *)
(* tracker (ReplicateObject), diff generation and diff application.        *)
(*                                                                         *)
(* A tracker graph is a heap: a function from tracker identities to the    *)
(* fields of a ReplicateObject.  dataMap is a sequence of slots in         *)
(* insertion order (a JS Map iterates in insertion order).                 *)
(***************************************************************************)
EXTENDS Integers, Sequences, FiniteSets, TLC

VARIABLES heap, last, stage, win, pendL, steps, obs, round, heap2, obs2, phase, wnd

vars == <<heap, last, stage, win, pendL, steps, obs, round, heap2, obs2, phase, wnd>>

(***************************************************************************)
(* Values.  A slot's data is a scalar, undefined, or a reference to a      *)
(* ReplicateObject.  A diff is `false` or a mapping: a sequence of         *)
(* (key, payload) entries in insertion order.                              *)
(***************************************************************************)
Num(n) == [num |-> n]
Undefined == [undef |-> TRUE]
Ref(o) == [ref |-> o]
False == [bool |-> FALSE]
Map(entries) == [map |-> entries]

IsRef(v) == DOMAIN v = {"ref"}
IsMap(v) == DOMAIN v = {"map"}

Null == "null"

\* new ReplicateObject(): the field initialisers
NewReplicateObject ==
    [lastVersion |-> 0, dataMap |-> <<>>, hasNewChange |-> FALSE,
     outter |-> Null, outterKey |-> ""]

\* this.dataMap.get(key): index of the slot, 0 when the key is not in the map
RECURSIVE FindFrom(_, _, _)
FindFrom(dm, key, i) ==
    IF i > Len(dm) THEN 0
    ELSE IF dm[i].key = key THEN i
    ELSE FindFrom(dm, key, i + 1)

dataMapGet(dm, key) == FindFrom(dm, key, 1)

\* the call stack: deeper recursion than this revisits a frame in the same
\* state and never returns (RangeError: Maximum call stack size exceeded)
StackLimit(h) == 2 * Cardinality(DOMAIN h) + 1

setOutter(h, o, outter, key) ==
    [h EXCEPT ![o].outter = outter, ![o].outterKey = key]

getProperty(h, o, key) ==
    LET i == dataMapGet(h[o].dataMap, key)
    IN  IF i # 0 THEN h[o].dataMap[i].data ELSE Undefined

(***************************************************************************)
(* ReplicateObject.propertyChanged(key, v, force).  Returns the heap after *)
(* the call, the notifications relayed to outters (child, outter, key) in  *)
(* call order, and whether the call stack overflowed.                      *)
(***************************************************************************)
RECURSIVE propertyChanged(_, _, _, _, _, _)

\* propertyChanged without the `v === repPro.data` return
propertyChanged_noEqualCheck(h, o, key, v, force, fuel) ==
    LET dm == h[o].dataMap
        i == dataMapGet(dm, key)
        changed == ~force
        repPro == IF i # 0
                  THEN [dm[i] EXCEPT
                          !.changed = changed,
                          !.data = IF v = Undefined /\ IsRef(dm[i].data)
                                   THEN @ ELSE v]
                  ELSE [key |-> key, version |-> 0, data |-> v,
                        changed |-> changed]
        dm1 == IF i # 0 THEN [dm EXCEPT ![i] = repPro] ELSE Append(dm, repPro)
        h1 == [h EXCEPT ![o].dataMap = dm1]
        h2 == IF IsRef(repPro.data)
              THEN setOutter(h1, repPro.data.ref, o, key)
              ELSE h1
    IN  IF ~h2[o].hasNewChange /\ repPro.changed
        THEN IF h2[o].outter # Null /\ fuel > 0
             THEN LET note == <<o, h2[o].outter, h2[o].outterKey>>
                      r == propertyChanged(h2, h2[o].outter, h2[o].outterKey,
                                           Undefined, FALSE, fuel - 1)
                  IN  [heap |-> [r.heap EXCEPT ![o].hasNewChange = TRUE],
                       notified |-> <<note>> \o r.notified,
                       fault |-> r.fault]
             ELSE [heap |-> [h2 EXCEPT ![o].hasNewChange = TRUE],
                   notified |-> <<>>, fault |-> FALSE]
        ELSE [heap |-> h2, notified |-> <<>>, fault |-> FALSE]

\* propertyChanged that never relays the change to the outter
propertyChanged_noBubble(h, o, key, v, force, fuel) ==
    LET dm == h[o].dataMap
        i == dataMapGet(dm, key)
        changed == ~force
    IN  IF i # 0 /\ v = dm[i].data
        THEN [heap |-> h, notified |-> <<>>, fault |-> FALSE]
        ELSE
        LET repPro == IF i # 0
                      THEN [dm[i] EXCEPT
                              !.changed = changed,
                              !.data = IF v = Undefined /\ IsRef(dm[i].data)
                                       THEN @ ELSE v]
                      ELSE [key |-> key, version |-> 0, data |-> v,
                            changed |-> changed]
            dm1 == IF i # 0 THEN [dm EXCEPT ![i] = repPro]
                   ELSE Append(dm, repPro)
            h1 == [h EXCEPT ![o].dataMap = dm1]
            h2 == IF IsRef(repPro.data)
                  THEN setOutter(h1, repPro.data.ref, o, key)
                  ELSE h1
        IN  [heap |-> [h2 EXCEPT ![o].hasNewChange = @ \/ repPro.changed],
             notified |-> <<>>, fault |-> FALSE]

\* propertyChanged that lets undefined overwrite a composite child
propertyChanged_noGuard(h, o, key, v, force, fuel) ==
    LET dm == h[o].dataMap
        i == dataMapGet(dm, key)
        changed == ~force
    IN  IF i # 0 /\ v = dm[i].data
        THEN [heap |-> h, notified |-> <<>>, fault |-> FALSE]
        ELSE
        LET repPro == IF i # 0
                      THEN [dm[i] EXCEPT !.changed = changed, !.data = v]
                      ELSE [key |-> key, version |-> 0, data |-> v,
                            changed |-> changed]
            dm1 == IF i # 0 THEN [dm EXCEPT ![i] = repPro]
                   ELSE Append(dm, repPro)
            h1 == [h EXCEPT ![o].dataMap = dm1]
            h2 == IF IsRef(repPro.data)
                  THEN setOutter(h1, repPro.data.ref, o, key)
                  ELSE h1
        IN  IF ~h2[o].hasNewChange /\ repPro.changed
            THEN IF h2[o].outter # Null
                 THEN IF fuel = 0
                      THEN [heap |-> h2, notified |-> <<>>, fault |-> TRUE]
                      ELSE LET note == <<o, h2[o].outter, h2[o].outterKey>>
                               r == propertyChanged(h2, h2[o].outter,
                                        h2[o].outterKey, Undefined, FALSE,
                                        fuel - 1)
                           IN  IF r.fault
                               THEN [r EXCEPT !.notified = <<note>> \o @]
                               ELSE [heap |-> [r.heap EXCEPT
                                                ![o].hasNewChange = TRUE],
                                     notified |-> <<note>> \o r.notified,
                                     fault |-> FALSE]
                 ELSE [heap |-> [h2 EXCEPT ![o].hasNewChange = TRUE],
                       notified |-> <<>>, fault |-> FALSE]
            ELSE [heap |-> h2, notified |-> <<>>, fault |-> FALSE]

propertyChanged(h, o, key, v, force, fuel) ==
    LET dm == h[o].dataMap
        i == dataMapGet(dm, key)
        changed == ~force
    IN  IF i # 0 /\ v = dm[i].data
        THEN [heap |-> h, notified |-> <<>>, fault |-> FALSE]
        ELSE
        LET repPro == IF i # 0
                      THEN [dm[i] EXCEPT
                              !.changed = changed,
                              !.data = IF v = Undefined /\ IsRef(dm[i].data)
                                       THEN @ ELSE v]
                      ELSE [key |-> key, version |-> 0, data |-> v,
                            changed |-> changed]
            dm1 == IF i # 0 THEN [dm EXCEPT ![i] = repPro]
                   ELSE Append(dm, repPro)
            h1 == [h EXCEPT ![o].dataMap = dm1]
            h2 == IF IsRef(repPro.data)
                  THEN setOutter(h1, repPro.data.ref, o, key)
                  ELSE h1
        IN  IF ~h2[o].hasNewChange /\ repPro.changed
            THEN IF h2[o].outter # Null
                 THEN IF fuel = 0
                      THEN [heap |-> h2, notified |-> <<>>, fault |-> TRUE]
                      ELSE LET note == <<o, h2[o].outter, h2[o].outterKey>>
                               r == propertyChanged(h2, h2[o].outter,
                                        h2[o].outterKey, Undefined, FALSE,
                                        fuel - 1)
                           IN  IF r.fault
                               THEN [r EXCEPT !.notified = <<note>> \o @]
                               ELSE [heap |-> [r.heap EXCEPT
                                                ![o].hasNewChange = TRUE],
                                     notified |-> <<note>> \o r.notified,
                                     fault |-> FALSE]
                 ELSE [heap |-> [h2 EXCEPT ![o].hasNewChange = TRUE],
                       notified |-> <<>>, fault |-> FALSE]
            ELSE [heap |-> h2, notified |-> <<>>, fault |-> FALSE]

(***************************************************************************)
(* ReplicateObject.genDiff(fromVersion, toVersion).  Returns the heap      *)
(* after the call, the result (False or a mapping), the trackers whose     *)
(* genDiff got past the two early returns, and whether the stack           *)
(* overflowed.  genDiffLoop is the for-of loop over this.dataMap from      *)
(* entry i on, reading the live map at every iteration.                    *)
(***************************************************************************)
RECURSIVE genDiff(_, _, _, _, _)
RECURSIVE genDiffLoop(_, _, _, _, _, _, _, _)

\* genDiffLoop with the version test off by one (<= for <)
genDiffLoop_offByOne(h, o, fromVersion, toVersion, fuel, i, outObject, visited) ==
    IF i > Len(h[o].dataMap)
    THEN [heap |-> [h EXCEPT ![o].lastVersion = toVersion],
          result |-> Map(outObject), visited |-> visited, fault |-> FALSE]
    ELSE
    LET property == h[o].dataMap[i]
        skip == ~property.changed /\ property.version <= fromVersion
        h1 == IF property.changed
              THEN [h EXCEPT ![o].dataMap[i].changed = FALSE,
                             ![o].dataMap[i].version = toVersion]
              ELSE h
    IN  IF skip
        THEN genDiffLoop(h, o, fromVersion, toVersion, fuel, i + 1,
                         outObject, visited)
        ELSE IF IsRef(property.data)
        THEN IF fuel = 0
             THEN [heap |-> h1, result |-> False, visited |-> visited,
                   fault |-> TRUE]
             ELSE LET r == genDiff(h1, property.data.ref, fromVersion,
                                   toVersion, fuel - 1)
                  IN  IF r.fault
                      THEN [r EXCEPT !.visited = @ \cup visited]
                      ELSE genDiffLoop(r.heap, o, fromVersion, toVersion,
                              fuel, i + 1,
                              IF r.result # False
                              THEN Append(outObject,
                                     [key |-> property.key, val |-> r.result])
                              ELSE outObject,
                              visited \cup r.visited)
        ELSE genDiffLoop(h1, o, fromVersion, toVersion, fuel, i + 1,
                         Append(outObject,
                                [key |-> property.key, val |-> property.data]),
                         visited)

\* genDiffLoop that leaves this.lastVersion as it was
genDiffLoop_noLastVersion(h, o, fromVersion, toVersion, fuel, i, outObject, visited) ==
    IF i > Len(h[o].dataMap)
    THEN [heap |-> h,
          result |-> Map(outObject), visited |-> visited, fault |-> FALSE]
    ELSE
    LET property == h[o].dataMap[i]
        skip == ~property.changed /\ property.version < fromVersion
        h1 == IF property.changed
              THEN [h EXCEPT ![o].dataMap[i].changed = FALSE,
                             ![o].dataMap[i].version = toVersion]
              ELSE h
    IN  IF skip
        THEN genDiffLoop(h, o, fromVersion, toVersion, fuel, i + 1,
                         outObject, visited)
        ELSE IF IsRef(property.data)
        THEN IF fuel = 0
             THEN [heap |-> h1, result |-> False, visited |-> visited,
                   fault |-> TRUE]
             ELSE LET r == genDiff(h1, property.data.ref, fromVersion,
                                   toVersion, fuel - 1)
                  IN  IF r.fault
                      THEN [r EXCEPT !.visited = @ \cup visited]
                      ELSE genDiffLoop(r.heap, o, fromVersion, toVersion,
                              fuel, i + 1,
                              IF r.result # False
                              THEN Append(outObject,
                                     [key |-> property.key, val |-> r.result])
                              ELSE outObject,
                              visited \cup r.visited)
        ELSE genDiffLoop(h1, o, fromVersion, toVersion, fuel, i + 1,
                         Append(outObject,
                                [key |-> property.key, val |-> property.data]),
                         visited)

genDiffLoop(h, o, fromVersion, toVersion, fuel, i, outObject, visited) ==
    IF i > Len(h[o].dataMap)
    THEN [heap |-> [h EXCEPT ![o].lastVersion = toVersion],
          result |-> Map(outObject), visited |-> visited, fault |-> FALSE]
    ELSE
    LET property == h[o].dataMap[i]
        skip == ~property.changed /\ property.version < fromVersion
        h1 == IF property.changed
              THEN [h EXCEPT ![o].dataMap[i].changed = FALSE,
                             ![o].dataMap[i].version = toVersion]
              ELSE h
    IN  IF skip
        THEN genDiffLoop(h, o, fromVersion, toVersion, fuel, i + 1,
                         outObject, visited)
        ELSE IF IsRef(property.data)
        THEN IF fuel = 0
             THEN [heap |-> h1, result |-> False, visited |-> visited,
                   fault |-> TRUE]
             ELSE LET r == genDiff(h1, property.data.ref, fromVersion,
                                   toVersion, fuel - 1)
                  IN  IF r.fault
                      THEN [r EXCEPT !.visited = @ \cup visited]
                      ELSE genDiffLoop(r.heap, o, fromVersion, toVersion,
                              fuel, i + 1,
                              IF r.result # False
                              THEN Append(outObject,
                                     [key |-> property.key, val |-> r.result])
                              ELSE outObject,
                              visited \cup r.visited)
        ELSE genDiffLoop(h1, o, fromVersion, toVersion, fuel, i + 1,
                         Append(outObject,
                                [key |-> property.key, val |-> property.data]),
                         visited)

\* genDiff without the toVersion < fromVersion return
genDiff_noOrderCheck(h, o, fromVersion, toVersion, fuel) ==
    IF fromVersion > h[o].lastVersion /\ ~h[o].hasNewChange
    THEN [heap |-> h, result |-> False, visited |-> {}, fault |-> FALSE]
    ELSE genDiffLoop(h, o, fromVersion, toVersion, fuel, 1, <<>>, {o})

genDiff(h, o, fromVersion, toVersion, fuel) ==
    IF toVersion < fromVersion
    THEN [heap |-> h, result |-> False, visited |-> {}, fault |-> FALSE]
    ELSE IF fromVersion > h[o].lastVersion /\ ~h[o].hasNewChange
    THEN [heap |-> h, result |-> False, visited |-> {}, fault |-> FALSE]
    ELSE genDiffLoop(h, o, fromVersion, toVersion, fuel, 1, <<>>, {o})

(***************************************************************************)
(* applyDiff(diff, target) on a live target graph.  A target is a plain    *)
(* object Obj(f), f a function from its property names to values: a        *)
(* scalar, a nested object, or a callable member Fn(calls) that records    *)
(* the payloads it was called with.  Returns the target after the call,    *)
(* the keys skipped with a warning, and whether a TypeError was thrown     *)
(* (a property read of null).                                              *)
(***************************************************************************)
Obj(f) == [props |-> f]
Fn(calls) == [fn |-> calls]
NullTarget == [null |-> TRUE]

IsObj(v) == DOMAIN v = {"props"}
IsFn(v) == DOMAIN v = {"fn"}

\* target[propertyName]
TargetGet(target, k) ==
    IF k \in DOMAIN target.props THEN target.props[k] ELSE Undefined

\* target[propertyName] = v
TargetSet(target, k, v) ==
    Obj([x \in DOMAIN target.props \cup {k} |->
            IF x = k THEN v ELSE target.props[x]])

\* Object.keys(diff): a mapping's keys in order; `false` has none
ObjectKeys(diff) ==
    IF IsMap(diff) THEN [i \in 1..Len(diff.map) |-> diff.map[i].key] ELSE <<>>

RECURSIVE applyDiff(_, _)
RECURSIVE applyDiffLoop(_, _, _, _)

\* applyDiffLoop that creates an empty object where the target has none
applyDiffLoop_createOnMismatch(diff, i, target, warned) ==
    IF i > Len(ObjectKeys(diff))
    THEN [target |-> target, warned |-> warned, fault |-> FALSE]
    ELSE
    LET propertyName == ObjectKeys(diff)[i]
        payload == diff.map[i].val
        prop == TargetGet(target, propertyName)
    IN  IF IsFn(prop)
        THEN applyDiffLoop(diff, i + 1,
                 TargetSet(target, propertyName, Fn(Append(prop.fn, payload))),
                 warned)
        ELSE IF IsMap(payload)
        THEN IF IsObj(prop)
             THEN LET r == applyDiff(payload, prop)
                  IN  applyDiffLoop(diff, i + 1,
                          TargetSet(target, propertyName, r.target),
                          warned \cup r.warned)
             ELSE applyDiffLoop(diff, i + 1,
                      TargetSet(target, propertyName, Obj(<<>>)),
                      warned \cup {propertyName})
        ELSE applyDiffLoop(diff, i + 1,
                 TargetSet(target, propertyName, payload), warned)

\* keys.forEach(...) from the i-th key on
\* applyDiffLoop that gives up on the remaining keys at a mismatch
applyDiffLoop_stopOnMismatch(diff, i, target, warned) ==
    IF i > Len(ObjectKeys(diff))
    THEN [target |-> target, warned |-> warned, fault |-> FALSE]
    ELSE
    LET propertyName == ObjectKeys(diff)[i]
        payload == diff.map[i].val
        prop == TargetGet(target, propertyName)
    IN  IF IsFn(prop)
        THEN applyDiffLoop(diff, i + 1,
                 TargetSet(target, propertyName, Fn(Append(prop.fn, payload))),
                 warned)
        ELSE IF IsMap(payload)
        THEN IF IsObj(prop)
             THEN LET r == applyDiff(payload, prop)
                  IN  applyDiffLoop(diff, i + 1,
                          TargetSet(target, propertyName, r.target),
                          warned \cup r.warned)
             ELSE [target |-> target, warned |-> warned \cup {propertyName},
                   fault |-> FALSE]
        ELSE applyDiffLoop(diff, i + 1,
                 TargetSet(target, propertyName, payload), warned)

applyDiffLoop(diff, i, target, warned) ==
    IF i > Len(ObjectKeys(diff))
    THEN [target |-> target, warned |-> warned, fault |-> FALSE]
    ELSE
    LET propertyName == ObjectKeys(diff)[i]
        payload == diff.map[i].val
        prop == TargetGet(target, propertyName)
    IN  IF IsFn(prop)
        THEN applyDiffLoop(diff, i + 1,
                 TargetSet(target, propertyName, Fn(Append(prop.fn, payload))),
                 warned)
        ELSE IF IsMap(payload)
        THEN IF IsObj(prop)
             THEN LET r == applyDiff(payload, prop)
                  IN  applyDiffLoop(diff, i + 1,
                          TargetSet(target, propertyName, r.target),
                          warned \cup r.warned)
             ELSE applyDiffLoop(diff, i + 1, target,
                                warned \cup {propertyName})
        ELSE applyDiffLoop(diff, i + 1,
                 TargetSet(target, propertyName, payload), warned)

applyDiff(diff, target) ==
    IF ObjectKeys(diff) = <<>>
    THEN [target |-> target, warned |-> {}, fault |-> FALSE]
    ELSE IF target = NullTarget
    THEN [target |-> target, warned |-> {}, fault |-> TRUE]
    ELSE applyDiffLoop(diff, 1, target, {})

(***************************************************************************)
(* Bookkeeping shared by the specifications.                               *)
(*   last   the operation just executed, its arguments and its outcome     *)
(*   win    per tracker, for the current window (since the last genDiff of *)
(*          that tracker that produced a mapping): the slots assigned, if  *)
(*          a slot was assigned twice, and the notifications it relayed    *)
(*   pendL  the value assigned to pos.x and not yet followed by a genDiff  *)
(***************************************************************************)
NoOp == [op |-> "init", obj |-> Null, key |-> "", val |-> Undefined,
         force |-> FALSE, from |-> 0, to |-> 0, result |-> False,
         notified |-> <<>>, fault |-> FALSE, noop |-> FALSE,
         pend |-> Undefined, visited |-> {}, ph |-> ""]

NewWindow == [keys |-> {}, repeat |-> FALSE, notes |-> 0, parented |-> TRUE]

RECURSIVE CountFrom(_, _)
CountFrom(notified, o) ==
    IF notified = <<>> THEN 0
    ELSE (IF Head(notified)[1] = o THEN 1 ELSE 0) + CountFrom(Tail(notified), o)

\* the window of every tracker after a tracked assignment of slot k of o
WinAfterSet(w, h, o, k, r, noop) ==
    [t \in DOMAIN w |->
        LET n == CountFrom(r.notified, t)
            w1 == [w[t] EXCEPT !.notes = IF @ + n > 2 THEN 2 ELSE @ + n]
        IN  IF t = o /\ ~noop
            THEN [w1 EXCEPT !.keys = @ \cup {k},
                            !.repeat = @ \/ k \in w[t].keys,
                            !.parented = @ /\ h[t].outter # Null]
            ELSE w1]

WinAfterDiff(w, visited) ==
    [t \in DOMAIN w |-> IF t \in visited THEN NewWindow ELSE w[t]]

(***************************************************************************)
(* The operations on the authority graph.                                  *)
(***************************************************************************)
\* target.key = v through the tracking setter: repObj.propertyChanged(key, v)
DoSet(o, k, v) ==
    LET i == dataMapGet(heap[o].dataMap, k)
        noop == i # 0 /\ heap[o].dataMap[i].data = v
        r == propertyChanged(heap, o, k, v, FALSE, StackLimit(heap))
    IN  /\ heap' = r.heap
        /\ last' = [NoOp EXCEPT !.op = "set", !.obj = o, !.key = k, !.val = v,
                                !.notified = r.notified, !.fault = r.fault,
                                !.noop = noop]
        /\ win' = WinAfterSet(win, heap, o, k, r, noop)

\* repObj.propertyChanged(key, v, true): the untracked seed
DoSeed(o, k, v) ==
    LET r == propertyChanged(heap, o, k, v, TRUE, StackLimit(heap))
    IN  /\ heap' = r.heap
        /\ last' = [NoOp EXCEPT !.op = "seed", !.obj = o, !.key = k, !.val = v,
                                !.force = TRUE,
                                !.notified = r.notified, !.fault = r.fault]
        /\ win' = [t \in DOMAIN win |->
                     LET n == CountFrom(r.notified, t)
                     IN  [win[t] EXCEPT !.notes = IF @ + n > 2 THEN 2 ELSE @ + n]]

DoGenDiff(o, f, t) ==
    LET r == genDiff(heap, o, f, t, StackLimit(heap))
    IN  /\ heap' = r.heap
        /\ last' = [NoOp EXCEPT !.op = "genDiff", !.obj = o, !.from = f,
                                !.to = t, !.result = r.result,
                                !.fault = r.fault, !.pend = pendL,
                                !.visited = r.visited, !.ph = phase]
        /\ win' = WinAfterDiff(win, r.visited)

(***************************************************************************)
(* Spec: the graph of the concrete scenario, root = {hp, pos}, pos =       *)
(* {x, y}, seeded untracked, then any tracked scalar assignments and any   *)
(* genDiff calls on either tracker.                                        *)
(***************************************************************************)
MaxVersion == 2
MaxSteps == 5

ScenarioObjs == {"root", "pos"}
\* the tracked assignments the driver makes: <<tracker, slot, value>>
ScenarioAssign == {<<"root", "hp", Num(80)>>, <<"pos", "x", Num(5)>>,
                   <<"pos", "x", Num(0)>>, <<"pos", "y", Num(5)>>}

Seeded(h, seeds) ==
    LET RECURSIVE go(_, _)
        go(hh, i) ==
            IF i > Len(seeds) THEN hh
            ELSE go(propertyChanged(hh, seeds[i][1], seeds[i][2], seeds[i][3],
                                    TRUE, StackLimit(hh)).heap, i + 1)
    IN  go(h, 1)

ScenarioHeap ==
    Seeded([o \in ScenarioObjs |-> NewReplicateObject],
           << <<"pos", "x", Num(0)>>, <<"pos", "y", Num(0)>>,
              <<"root", "hp", Num(100)>>, <<"root", "pos", Ref("pos")>> >>)

\* the scenario's script; stage n means the first n steps were exactly these
Script ==
    << [op |-> "set", obj |-> "root", key |-> "hp", val |-> Num(80)],
       [op |-> "genDiff", obj |-> "root", from |-> 0, to |-> 1],
       [op |-> "set", obj |-> "pos", key |-> "x", val |-> Num(5)],
       [op |-> "genDiff", obj |-> "root", from |-> 1, to |-> 2],
       [op |-> "genDiff", obj |-> "root", from |-> 0, to |-> 2] >>

OffScript == Len(Script) + 1

NextStage(s, step) ==
    IF s < Len(Script) /\ Script[s + 1] = step THEN s + 1 ELSE OffScript

Idle == /\ obs = Undefined /\ round = 0 /\ heap2 = <<>>
        /\ obs2 = Undefined /\ wnd = <<>>

IdleUnchanged == UNCHANGED <<obs, round, heap2, obs2, wnd>>

\* the driver issues at most n operations
Tick(n) == steps < n /\ steps' = steps + 1

Init ==
    /\ heap = ScenarioHeap
    /\ last = NoOp
    /\ stage = 0
    /\ win = [o \in ScenarioObjs |-> NewWindow]
    /\ pendL = Undefined
    /\ steps = 0
    /\ phase = ""
    /\ Idle

SetProperty ==
    \E s \in ScenarioAssign :
        /\ Tick(MaxSteps)
        /\ DoSet(s[1], s[2], s[3])
        /\ stage' = NextStage(stage, [op |-> "set", obj |-> s[1],
                                      key |-> s[2], val |-> s[3]])
        /\ pendL' = IF s[1] = "pos" /\ s[2] = "x" /\ ~last'.noop
                    THEN s[3] ELSE pendL
        /\ UNCHANGED phase
        /\ IdleUnchanged

GenDiff ==
    \E o \in ScenarioObjs, f \in 0..MaxVersion, t \in 0..MaxVersion :
        /\ Tick(MaxSteps)
        /\ DoGenDiff(o, f, t)
        /\ stage' = NextStage(stage, [op |-> "genDiff", obj |-> o,
                                      from |-> f, to |-> t])
        /\ pendL' = IF f <= t THEN Undefined ELSE pendL
        /\ UNCHANGED phase
        /\ IdleUnchanged

Next == SetProperty \/ GenDiff

Spec == Init /\ [][Next]_vars

(***************************************************************************)
(* Reading diffs and trackers.                                             *)
(***************************************************************************)
DiffKeys(d) == IF IsMap(d) THEN {d.map[i].key : i \in 1..Len(d.map)} ELSE {}

DiffGet(d, k) ==
    LET i == dataMapGet(d.map, k) IN IF i # 0 THEN d.map[i].val ELSE Undefined

\* a diff as a plain object: key -> scalar or nested object, order forgotten
RECURSIVE AsObject(_)
AsObject(d) ==
    IF IsMap(d) THEN [k \in DiffKeys(d) |-> AsObject(DiffGet(d, k))] ELSE d

SlotKeys(t) == {t.dataMap[i].key : i \in 1..Len(t.dataMap)}
Slot(t, k) == t.dataMap[dataMapGet(t.dataMap, k)]
DirtyKeys(t) == {k \in SlotKeys(t) : Slot(t, k).changed}
ScalarOnly(t) == \A k \in SlotKeys(t) : ~IsRef(Slot(t, k).data)

(***************************************************************************)
(* C2  Single notify per window.  A tracker that has a parent, and that    *)
(* in the current window received tracked assignments of new values to     *)
(* different slots, has relayed exactly one notification to its parent.    *)
(* (Stated as the claim states it; the code violates it from the second    *)
(* window on: hasNewChange is never reset.)                                *)
(***************************************************************************)
C2_SingleNotifyPerWindow ==
    \A o \in DOMAIN heap :
        (heap[o].outter # Null /\ win[o].parented
            /\ win[o].keys # {} /\ ~win[o].repeat)
        => win[o].notes = 1

(***************************************************************************)
(* C3  Nested composition.  After pos.x was assigned a new value, the next *)
(* root.genDiff(from, to) with from <= to returns a mapping holding pos,   *)
(* itself a mapping holding x with the new value, and stamps the version   *)
(* of root's slot pos to `to`.                                             *)
(***************************************************************************)
C3_NestedComposition ==
    (last.op = "genDiff" /\ last.obj = "root" /\ last.from <= last.to
        /\ last.pend # Undefined)
    => /\ IsMap(last.result)
       /\ "pos" \in DiffKeys(last.result)
       /\ IsMap(DiffGet(last.result, "pos"))
       /\ DiffGet(DiffGet(last.result, "pos"), "x") = last.pend
       /\ Slot(heap["root"], "pos").version = last.to

(***************************************************************************)
(* C5  Monotonic coverage.  For a tracker with scalar slots only and       *)
(* from <= to, the keys of genDiff(from, to) are exactly the slots whose   *)
(* version before the call is in [from, to], union the slots dirty before  *)
(* the call.  C5_Coverage is the claim as stated; C5_CoverageFromOnly is   *)
(* the amended claim: the slots whose version is >= from (no upper end),   *)
(* union the dirty ones.                                                   *)
(***************************************************************************)
IsCoverageCall ==
    /\ last'.op = "genDiff"
    /\ last'.from <= last'.to
    /\ ScalarOnly(heap[last'.obj])

\* C5 as stated: keys = slots with version in [from, to], union dirty slots
C5_Coverage ==
    [][IsCoverageCall =>
        LET t == heap[last'.obj]
        IN  DiffKeys(last'.result) =
              {k \in SlotKeys(t) : /\ Slot(t, k).version >= last'.from
                                   /\ Slot(t, k).version <= last'.to}
              \cup DirtyKeys(t)]_vars

\* C5 amended: keys = slots with version >= from, union dirty slots (the
\* sentinel counts as no keys)
C5_CoverageFromOnly ==
    [][IsCoverageCall =>
        LET t == heap[last'.obj]
        IN  DiffKeys(last'.result) =
              {k \in SlotKeys(t) : Slot(t, k).version >= last'.from}
              \cup DirtyKeys(t)]_vars

\* a coverage call with from > 0 that included the dirty slot x and omitted
\* the clean slot y, whose version is below from
C5_Witness ==
    /\ last.op = "genDiff" /\ last.obj = "pos" /\ last.from <= last.to
    /\ IsMap(last.result)
    /\ DiffKeys(last.result) = {"x"}
    /\ Slot(heap["pos"], "y").version < last.from
    /\ last.from > 0

(***************************************************************************)
(* C6  Concrete scenario.  root = {hp: 100, pos: {x: 0, y: 0}} seeded.     *)
(* As stated: after hp = 80, genDiff(0,1) = {hp: 80}; after pos.x = 5,     *)
(* genDiff(1,2) = {pos: {x: 5}}; then genDiff(0,2) =                       *)
(* {hp: 80, pos: {x: 5, y: 0}}.  Amended: genDiff(0,1) =                   *)
(* {hp: 80, pos: {x: 0, y: 0}} and genDiff(1,2) = {hp: 80, pos: {x: 5}}:   *)
(* a slot whose version equals fromVersion is included.                    *)
(***************************************************************************)
\* C6 as stated: the three diffs are exactly those of the scenario
C6_Scenario ==
    /\ stage = 2 => AsObject(last.result) = [hp |-> Num(80)]
    /\ stage = 4 => AsObject(last.result) = [pos |-> [x |-> Num(5)]]
    /\ stage = 5 => AsObject(last.result) =
                      [hp |-> Num(80), pos |-> [x |-> Num(5), y |-> Num(0)]]

\* C6 amended: the first two diffs also hold the slots whose version equals
\* fromVersion
C6_ScenarioInclusive ==
    /\ stage = 2 => AsObject(last.result) =
                      [hp |-> Num(80), pos |-> [x |-> Num(0), y |-> Num(0)]]
    /\ stage = 4 => AsObject(last.result) =
                      [hp |-> Num(80), pos |-> [x |-> Num(5)]]
    /\ stage = 5 => AsObject(last.result) =
                      [hp |-> Num(80), pos |-> [x |-> Num(5), y |-> Num(0)]]

\* the whole scenario was run
C6_Witness == stage = 5 /\ IsMap(last.result)

(***************************************************************************)
(* C10  Out-of-order window.  genDiff(from, to) with to < from returns     *)
(* false, raises nothing and leaves every tracker of the graph unchanged.  *)
(***************************************************************************)
C10_OutOfOrderWindow ==
    [][(last'.op = "genDiff" /\ last'.to < last'.from)
        => (last'.result = False /\ ~last'.fault /\ heap' = heap)]_vars

\* an out-of-order call on a tracker that had a dirty slot and a dirty child
C10_Witness ==
    /\ last.op = "genDiff" /\ last.to < last.from /\ last.obj = "root"
    /\ DirtyKeys(heap["root"]) = {"hp", "pos"}
    /\ DirtyKeys(heap["pos"]) # {}

(***************************************************************************)
(* SpecGraph: three trackers A, B and X whose slots are assigned scalars,  *)
(* undefined and the composite X, so that X is attached, moved and         *)
(* overwritten.  X starts with one seeded slot; A and B start empty.       *)
(*   phase  how far the run has followed "X assigned to A.f, then to B.g,  *)
(*          with no genDiff so far", and which of A and B were diffed      *)
(*          since                                                          *)
(***************************************************************************)
GraphMaxVersion == 1
GraphSteps == 4

GraphObjs == {"A", "B", "X"}

GraphAssign == {<<"A", "f", Ref("X")>>, <<"B", "g", Ref("X")>>,
                <<"A", "f", Undefined>>, <<"A", "f", Num(2)>>,
                <<"X", "f", Num(1)>>, <<"X", "f", Num(2)>>,
                <<"X", "g", Undefined>>, <<"X", "g", Num(2)>>}

GraphHeap ==
    Seeded([o \in GraphObjs |-> NewReplicateObject], << <<"X", "f", Num(1)>> >>)

PhaseAfterSet(ph, s) ==
    IF s = <<"A", "f", Ref("X")>>
    THEN (IF ph \in {"start", "underA"} THEN "underA" ELSE "off")
    ELSE IF s = <<"B", "g", Ref("X")>>
    THEN (IF ph = "underA" THEN "moved"
          ELSE IF ph \in {"moved", "movedA", "movedB"} THEN ph
          ELSE "off")
    ELSE IF <<s[1], s[2]>> \in {<<"A", "f">>, <<"B", "g">>}
    THEN "off"
    ELSE ph

PhaseAfterDiff(ph, o, f, t) ==
    IF ph \in {"start", "underA", "off", "done"} THEN "off"
    ELSE IF t < f THEN ph
    ELSE IF o = "X" THEN "off"
    ELSE IF o = "A" THEN (IF ph = "movedB" THEN "done" ELSE "movedA")
    ELSE (IF ph = "movedA" THEN "done" ELSE "movedB")

GraphUnchanged == UNCHANGED <<stage, pendL, obs, round, heap2, obs2, wnd>>

InitGraph ==
    /\ heap = GraphHeap
    /\ last = NoOp
    /\ stage = 0
    /\ win = [o \in GraphObjs |-> NewWindow]
    /\ pendL = Undefined
    /\ steps = 0
    /\ phase = "start"
    /\ Idle

GraphSet ==
    \E s \in GraphAssign :
        /\ Tick(GraphSteps)
        /\ DoSet(s[1], s[2], s[3])
        /\ phase' = PhaseAfterSet(phase, s)
        /\ GraphUnchanged

GraphGenDiff ==
    \E o \in GraphObjs, f \in 0..GraphMaxVersion, t \in 0..GraphMaxVersion :
        /\ Tick(GraphSteps)
        /\ DoGenDiff(o, f, t)
        /\ phase' = PhaseAfterDiff(phase, o, f, t)
        /\ GraphUnchanged

NextGraph == GraphSet \/ GraphGenDiff

SpecGraph == InitGraph /\ [][NextGraph]_vars

(***************************************************************************)
(* C4  Reparenting.  X was assigned to A.f and then, before any genDiff,   *)
(* to B.g.  The next genDiff of B (from <= to) holds X's contents under g, *)
(* and the next genDiff of A holds no nested mapping: X is under no key.   *)
(***************************************************************************)
C4_Reparenting ==
    (last.op = "genDiff" /\ last.from <= last.to)
    => /\ (last.obj = "B" /\ last.ph \in {"moved", "movedA"})
            => /\ IsMap(last.result)
               /\ "g" \in DiffKeys(last.result)
               /\ IsMap(DiffGet(last.result, "g"))
               /\ \A k \in DiffKeys(DiffGet(last.result, "g")) :
                     DiffGet(DiffGet(last.result, "g"), k)
                        = getProperty(heap, "X", k)
       /\ (last.obj = "A" /\ last.ph \in {"moved", "movedB"})
            => \A k \in DiffKeys(last.result) :
                  ~IsMap(DiffGet(last.result, k))

(***************************************************************************)
(* C7  No-op suppression.  As stated: setProperty(name, v) with v          *)
(* identical to what getProperty(name) returns changes nothing in the      *)
(* graph and relays no notification.  Amended: this holds when the slot    *)
(* exists (the name was assigned before); for a name never assigned        *)
(* getProperty returns undefined, and assigning undefined creates the      *)
(* slot, dirty.                                                            *)
(***************************************************************************)
\* C7 as stated: assigning what getProperty returns changes nothing
C7_NoOpSuppression ==
    [][(last'.op = "set"
          /\ last'.val = getProperty(heap, last'.obj, last'.key))
        => (heap' = heap /\ last'.notified = <<>>)]_vars

\* C7 amended: assigning an existing slot its stored value changes nothing
C7_NoOpOnExistingSlot ==
    [][(last'.op = "set"
          /\ last'.key \in SlotKeys(heap[last'.obj])
          /\ last'.val = getProperty(heap, last'.obj, last'.key))
        => (heap' = heap /\ last'.notified = <<>>)]_vars

\* the stored value was assigned again to a clean slot of a tracker that has
\* an outter and has not notified it yet
C7_Witness ==
    /\ last.op = "set" /\ last.noop
    /\ heap[last.obj].outter # Null
    /\ ~heap[last.obj].hasNewChange
    /\ ~Slot(heap[last.obj], last.key).changed

(***************************************************************************)
(* The observer's view of an authority graph: every slot's value, nested   *)
(* trackers as nested objects (for graphs that are trees).                 *)
(***************************************************************************)
RECURSIVE View(_, _)
View(h, o) ==
    Obj([k \in SlotKeys(h[o]) |->
            LET d == Slot(h[o], k).data
            IN  IF IsRef(d) THEN View(h, d.ref) ELSE d])

\* merge a genDiff result into an observer; the sentinel is not applied
Merge(result, observer) ==
    IF result = False THEN observer ELSE applyDiff(result, observer).target

(***************************************************************************)
(* SpecRounds: the authority graph root = {hp, pos = {x, y}} and an        *)
(* observer that mirrors it.  Round r is any number of tracked             *)
(* assignments followed by root.genDiff(r - 1, r), merged into the         *)
(* observer.                                                               *)
(***************************************************************************)
MaxRounds == 3

RoundsUnchanged == UNCHANGED <<stage, win, pendL, steps, heap2, obs2, phase, wnd>>

InitRounds ==
    /\ heap = ScenarioHeap
    /\ obs = View(ScenarioHeap, "root")
    /\ round = 0
    /\ last = NoOp
    /\ stage = 0
    /\ win = [o \in ScenarioObjs |-> NewWindow]
    /\ pendL = Undefined
    /\ steps = 0
    /\ phase = ""
    /\ heap2 = <<>> /\ obs2 = Undefined /\ wnd = <<>>

RoundAssign ==
    \E s \in ScenarioAssign :
        /\ round < MaxRounds
        /\ heap' = propertyChanged(heap, s[1], s[2], s[3], FALSE,
                                   StackLimit(heap)).heap
        /\ last' = [NoOp EXCEPT !.op = "set", !.obj = s[1], !.key = s[2],
                                !.val = s[3]]
        /\ UNCHANGED <<obs, round>>
        /\ RoundsUnchanged

RoundSync ==
    /\ round < MaxRounds
    /\ LET r == genDiff(heap, "root", round, round + 1, StackLimit(heap))
       IN  /\ heap' = r.heap
           /\ obs' = Merge(r.result, obs)
           /\ last' = [NoOp EXCEPT !.op = "sync", !.obj = "root",
                                   !.from = round, !.to = round + 1,
                                   !.result = r.result]
    /\ round' = round + 1
    /\ RoundsUnchanged

NextRounds == RoundAssign \/ RoundSync

SpecRounds == InitRounds /\ [][NextRounds]_vars

(***************************************************************************)
(* C1  Convergence over rounds.  After every round the observer holds, in  *)
(* every slot, the value the authority stores.                             *)
(***************************************************************************)
C1_Convergence ==
    last.op = "sync" => obs = View(heap, "root")

(***************************************************************************)
(* SpecWindows: two copies of the authority graph, heap and heap2, receive *)
(* the same tracked assignments.  After a common history of assignments    *)
(* and diffs, versions a <= b <= c are fixed.  Copy 1 generates            *)
(* genDiff(a, b) after a prefix of the assignments and genDiff(b, c) after *)
(* the rest; copy 2 generates genDiff(a, c) at the end.  Observer obs      *)
(* merges the two diffs of copy 1, observer obs2 the one diff of copy 2.   *)
(***************************************************************************)
WindowMaxVersion == 2
WindowSteps == 3

WindowsUnchanged == UNCHANGED <<last, stage, win, pendL, round>>

SetBoth(s) ==
    /\ Tick(WindowSteps)
    /\ heap' = propertyChanged(heap, s[1], s[2], s[3], FALSE,
                               StackLimit(heap)).heap
    /\ heap2' = propertyChanged(heap2, s[1], s[2], s[3], FALSE,
                                StackLimit(heap2)).heap

InitWindows ==
    /\ heap = ScenarioHeap
    /\ heap2 = ScenarioHeap
    /\ obs = View(ScenarioHeap, "root")
    /\ obs2 = View(ScenarioHeap, "root")
    /\ phase = "history"
    /\ wnd = <<>>
    /\ steps = 0
    /\ last = NoOp
    /\ stage = 0
    /\ win = [o \in ScenarioObjs |-> NewWindow]
    /\ pendL = Undefined
    /\ round = 0

HistorySet ==
    \E s \in ScenarioAssign :
        /\ phase = "history"
        /\ SetBoth(s)
        /\ UNCHANGED <<obs, obs2, phase, wnd>>
        /\ WindowsUnchanged

HistoryDiff ==
    \E f \in 0..WindowMaxVersion, t \in 0..WindowMaxVersion :
        /\ phase = "history"
        /\ f <= t
        /\ heap' = genDiff(heap, "root", f, t, StackLimit(heap)).heap
        /\ heap2' = genDiff(heap2, "root", f, t, StackLimit(heap2)).heap
        /\ UNCHANGED <<obs, obs2, phase, wnd, steps>>
        /\ WindowsUnchanged

StartWindows ==
    \E a \in 0..WindowMaxVersion, b \in 0..WindowMaxVersion,
       c \in 0..WindowMaxVersion :
        /\ phase = "history"
        /\ a <= b /\ b <= c
        /\ wnd' = [a |-> a, b |-> b, c |-> c]
        /\ phase' = "prefix"
        /\ UNCHANGED <<heap, heap2, obs, obs2, steps>>
        /\ WindowsUnchanged

PrefixSet ==
    \E s \in ScenarioAssign :
        /\ phase = "prefix"
        /\ SetBoth(s)
        /\ UNCHANGED <<obs, obs2, phase, wnd>>
        /\ WindowsUnchanged

\* copy 1: D1 = root.genDiff(a, b), merged into the first observer
Cut ==
    /\ phase = "prefix"
    /\ LET r == genDiff(heap, "root", wnd.a, wnd.b, StackLimit(heap))
       IN  /\ heap' = r.heap
           /\ obs' = Merge(r.result, obs)
    /\ phase' = "rest"
    /\ UNCHANGED <<heap2, obs2, wnd, steps>>
    /\ WindowsUnchanged

RestSet ==
    \E s \in ScenarioAssign :
        /\ phase = "rest"
        /\ SetBoth(s)
        /\ UNCHANGED <<obs, obs2, phase, wnd>>
        /\ WindowsUnchanged

\* copy 1: D2 = root.genDiff(b, c); copy 2: D = root.genDiff(a, c)
Finish ==
    /\ phase = "rest"
    /\ LET r == genDiff(heap, "root", wnd.b, wnd.c, StackLimit(heap))
           q == genDiff(heap2, "root", wnd.a, wnd.c, StackLimit(heap2))
       IN  /\ heap' = r.heap
           /\ obs' = Merge(r.result, obs)
           /\ heap2' = q.heap
           /\ obs2' = Merge(q.result, obs2)
    /\ phase' = "done"
    /\ UNCHANGED <<wnd, steps>>
    /\ WindowsUnchanged

NextWindows ==
    \/ HistorySet \/ HistoryDiff \/ StartWindows
    \/ PrefixSet \/ Cut \/ RestSet \/ Finish

SpecWindows == InitWindows /\ [][NextWindows]_vars

(***************************************************************************)
(* C8  Ordering guarantee.  Merging genDiff(a, b) and then genDiff(b, c)   *)
(* leaves the first observer in the state in which merging genDiff(a, c)   *)
(* leaves the second.                                                      *)
(***************************************************************************)
C8_WindowComposition ==
    phase = "done" => obs = obs2

(***************************************************************************)
(* SpecApply: applyDiff(diff, target) on plain target graphs.  The diff    *)
(* and the target are drawn from bounded sets; the diff is applied once,   *)
(* and then once more.                                                     *)
(*   wnd    the diff                                                       *)
(*   heap2  the target before the first application                        *)
(*   obs    the target                                                     *)
(*   obs2   the target as the first application left it                    *)
(*   last   the warnings and the fault of the last application             *)
(***************************************************************************)
ApplyKeys == {"a", "b"}

InnerDiffs ==
    {Map(<<>>)} \cup {Map(<<[key |-> "x", val |-> v]>>) : v \in {Num(1), Num(2)}}

Payloads == {Num(1), Undefined} \cup InnerDiffs

Diffs ==
    {Map(<<[key |-> "a", val |-> p]>>) : p \in Payloads}
    \cup {Map(<<[key |-> "a", val |-> p], [key |-> "b", val |-> q]>>) :
            p \in Payloads, q \in Payloads}

TargetVals ==
    {Num(2), Obj(<<>>), Obj([k \in {"x"} |-> Num(2)]), Fn(<<>>)}

Targets ==
    UNION {{Obj(f) : f \in [D -> TargetVals]} : D \in SUBSET ApplyKeys}

ApplyUnchanged == UNCHANGED <<heap, stage, win, pendL, steps, round>>

InitApply ==
    /\ wnd \in Diffs
    /\ obs \in Targets
    /\ heap2 = obs
    /\ obs2 = Undefined
    /\ phase = "new"
    /\ last = NoOp
    /\ heap = <<>>
    /\ stage = 0
    /\ win = <<>>
    /\ pendL = Undefined
    /\ steps = 0
    /\ round = 0

ApplyOnce ==
    /\ phase = "new"
    /\ LET r == applyDiff(wnd, obs)
       IN  /\ obs' = r.target
           /\ obs2' = r.target
           /\ last' = [NoOp EXCEPT !.op = "applyDiff", !.fault = r.fault,
                                   !.visited = r.warned]
    /\ phase' = "once"
    /\ UNCHANGED <<wnd, heap2>>
    /\ ApplyUnchanged

ApplyAgain ==
    /\ phase = "once"
    /\ LET r == applyDiff(wnd, obs)
       IN  /\ obs' = r.target
           /\ last' = [NoOp EXCEPT !.op = "applyDiff", !.fault = r.fault,
                                   !.visited = r.warned]
    /\ phase' = "twice"
    /\ UNCHANGED <<wnd, heap2, obs2>>
    /\ ApplyUnchanged

NextApply == ApplyOnce \/ ApplyAgain

SpecApply == InitApply /\ [][NextApply]_vars

\* no callable member of the target under a key of the diff, at any depth
RECURSIVE NoCallable(_, _)
NoCallable(diff, target) ==
    \A k \in DiffKeys(diff) :
        LET prop == TargetGet(target, k)
        IN  /\ ~IsFn(prop)
            /\ (IsMap(DiffGet(diff, k)) /\ IsObj(prop))
                  => NoCallable(DiffGet(diff, k), prop)

(***************************************************************************)
(* C9  Idempotence of application.  For a target with no callable member   *)
(* under the diff's keys, applying the diff twice leaves the target as     *)
(* applying it once did.                                                   *)
(***************************************************************************)
C9_ApplyIdempotent ==
    (phase = "twice" /\ NoCallable(wnd, heap2)) => obs = obs2

\* applied twice: a scalar overwrote a property, a nested mapping was merged
\* into a structured property and changed it
C9_Witness ==
    /\ phase = "twice"
    /\ NoCallable(wnd, heap2)
    /\ obs # heap2
    /\ \E k \in DiffKeys(wnd) :
          /\ IsMap(DiffGet(wnd, k))
          /\ IsObj(TargetGet(heap2, k))
          /\ TargetGet(obs, k) # TargetGet(heap2, k)
    /\ \E k \in DiffKeys(wnd) : ~IsMap(DiffGet(wnd, k))

(***************************************************************************)
(* SpecFault: the scenario graph, on which the driver assigns, calls       *)
(* genDiff on either tracker, calls tracker.applyDiff(diff) on either      *)
(* tracker and applies a diff to a plain target graph.  The keys of the    *)
(* diffs are slot names, none of which names a member of ReplicateObject.  *)
(*   obs    per tracker, the properties that applyDiff has set on the      *)
(*          ReplicateObject instance itself                                *)
(*   obs2   the plain target graph                                         *)
(***************************************************************************)
FaultSteps == 3

FaultDiffs ==
    {Map(<<>>),
     Map(<<[key |-> "hp", val |-> Num(80)]>>),
     Map(<<[key |-> "pos", val |-> Map(<<[key |-> "x", val |-> Num(5)]>>)]>>)}

\* tracker.applyDiff(diff): applyDiff(diff, this.outter); the target is the
\* parent tracker object, or null at a root
ReplicateObject_applyDiff(h, own, o, diff) ==
    LET outter == h[o].outter
        r == applyDiff(diff, IF outter = Null THEN NullTarget ELSE own[outter])
    IN  [own |-> IF outter = Null \/ r.fault THEN own
                 ELSE [own EXCEPT ![outter] = r.target],
         warned |-> r.warned, fault |-> r.fault]

FaultUnchanged == UNCHANGED <<stage, pendL, round, heap2, wnd, phase>>

InitFault ==
    /\ heap = ScenarioHeap
    /\ obs = [o \in ScenarioObjs |-> Obj(<<>>)]
    /\ obs2 = Obj([k \in {"hp"} |-> Num(100)])
    /\ last = NoOp
    /\ stage = 0
    /\ win = [o \in ScenarioObjs |-> NewWindow]
    /\ pendL = Undefined
    /\ steps = 0
    /\ phase = ""
    /\ round = 0 /\ heap2 = <<>> /\ wnd = <<>>

FaultSet ==
    \E s \in ScenarioAssign :
        /\ Tick(FaultSteps)
        /\ DoSet(s[1], s[2], s[3])
        /\ UNCHANGED <<obs, obs2>>
        /\ FaultUnchanged

FaultGenDiff ==
    \E o \in ScenarioObjs, f \in 0..MaxVersion, t \in 0..MaxVersion :
        /\ Tick(FaultSteps)
        /\ DoGenDiff(o, f, t)
        /\ UNCHANGED <<obs, obs2>>
        /\ FaultUnchanged

TrackerApplyDiff ==
    \E o \in ScenarioObjs, d \in FaultDiffs :
        /\ Tick(FaultSteps)
        /\ LET r == ReplicateObject_applyDiff(heap, obs, o, d)
           IN  /\ obs' = r.own
               /\ last' = [NoOp EXCEPT !.op = "trackerApplyDiff", !.obj = o,
                                       !.val = d, !.fault = r.fault,
                                       !.visited = r.warned]
        /\ UNCHANGED <<heap, win, obs2>>
        /\ FaultUnchanged

TargetApplyDiff ==
    \E d \in FaultDiffs :
        /\ Tick(FaultSteps)
        /\ LET r == applyDiff(d, obs2)
           IN  /\ obs2' = r.target
               /\ last' = [NoOp EXCEPT !.op = "applyDiff", !.val = d,
                                       !.fault = r.fault,
                                       !.visited = r.warned]
        /\ UNCHANGED <<heap, win, obs>>
        /\ FaultUnchanged

NextFault == FaultSet \/ FaultGenDiff \/ TrackerApplyDiff \/ TargetApplyDiff

SpecFault == InitFault /\ [][NextFault]_vars

(***************************************************************************)
(* C11  No thrown fault.  For every tracker, a root as well as a nested    *)
(* one, and every diff with at least one key, tracker.genDiff(from, to),   *)
(* tracker.applyDiff(diff) and applyDiff(diff, target) complete normally.  *)
(***************************************************************************)
C11_NoThrownFault ==
    last.op \in {"genDiff", "trackerApplyDiff", "applyDiff"} => ~last.fault

\* the (parent, key) slots of the graph that store tracker c
Holders(h, c) ==
    {pk \in (DOMAIN h) \X UNION {SlotKeys(h[p]) : p \in DOMAIN h} :
        /\ pk[2] \in SlotKeys(h[pk[1]])
        /\ Slot(h[pk[1]], pk[2]).data = Ref(c)}

(***************************************************************************)
(* C12  Single ownership (under SpecGraph).  In every state reachable by   *)
(* setProperty calls a tracker is stored in at most one (parent, key)      *)
(* slot, and its parent pointer is (p, k) exactly when slot k of p stores  *)
(* it.                                                                     *)
(***************************************************************************)
C12_SingleOwnership ==
    \A c \in DOMAIN heap :
        /\ Cardinality(Holders(heap, c)) <= 1
        /\ \A p \in DOMAIN heap, k \in {"f", "g"} :
              (heap[c].outter = p /\ heap[c].outterKey = k)
                 <=> <<p, k>> \in Holders(heap, c)

Absent == [absent |-> TRUE]
NoDescriptor == [kind |-> "none"]
DataDescriptor(v) == [kind |-> "data", value |-> v]
Accessor == [kind |-> "accessor"]

\* JavaScript truthiness and loose equality on the values of the model
Truthy(v) == v \notin {Undefined, Num(0), False}
LooseEq(a, b) == a = b \/ {a, b} = {Num(0), False}

\* target[name] read: own property, else the prototype's
InstanceGet(c, own, h, i, name) ==
    IF own[i][name] # Absent THEN own[i][name]
    ELSE IF c.desc[name].kind = "data" THEN c.desc[name].value
    ELSE IF c.desc[name].kind = "accessor" THEN getProperty(h, i, name)
    ELSE Undefined

\* the seeding state after the propertyChanged call with outcome r
AfterChange(st, r) == [st EXCEPT !.heap = r.heap, !.fault = r.fault]

\* target[name] = v: an own data property takes the value; without one the
\* prototype's accessor runs descriptor.set, which calls propertyChanged;
\* otherwise the assignment creates an own property
InstanceSet(st, i, name, v) ==
    IF st.own[i][name] = Absent /\ st.cls.desc[name].kind = "accessor"
    THEN AfterChange(st, propertyChanged(st.heap, i, name, v, FALSE,
                                         StackLimit(st.heap)))
    ELSE [st EXCEPT !.own[i][name] = v]

\* one callback of marks.forEach(...): the k-th mark
SeedStep(st, i, k) ==
    LET propertyName == st.cls.marks[k].name
        descriptor == st.cls.desc[propertyName]
        oldValue == IF descriptor.kind = "data" THEN descriptor.value
                    ELSE Undefined
    IN  IF descriptor = NoDescriptor THEN st
        ELSE IF ~LooseEq(oldValue, st.cls.marks[k].def)
        THEN InstanceSet(
                 [st EXCEPT
                    !.cls.desc[propertyName] = IF st.cls.init THEN @
                                               ELSE Accessor,
                    !.own[i][propertyName] = Absent],
                 i, propertyName, oldValue)
        ELSE IF Truthy(oldValue)
        \* oldValue is truthy only for a data descriptor, which has no set
        THEN AfterChange(
                 [st EXCEPT
                    !.cls.desc[propertyName] = IF st.cls.init THEN @
                                               ELSE Accessor],
                 propertyChanged(st.heap, i, propertyName, oldValue, TRUE,
                                 StackLimit(st.heap)))
        ELSE [st EXCEPT
                !.cls.desc[propertyName] = IF st.cls.init THEN @
                                           ELSE Accessor]

\* marks.forEach(...) from the k-th mark on, then markObj.init = true
RECURSIVE SeedLoop(_, _, _)
SeedLoop(st, i, k) ==
    IF st.fault THEN st
    ELSE IF k > Len(st.cls.marks) THEN [st EXCEPT !.cls.init = TRUE]
    ELSE SeedLoop(SeedStep(st, i, k), i, k + 1)

\* return repObj.genDiff(from, to), unless the seeding threw
ThenGenDiff(st, r) ==
    [cls |-> st.cls, own |-> st.own, heap |-> r.heap, result |-> r.result,
     fault |-> r.fault]

\* genDiff(target, from, to) of the module
module_genDiff(st, i, from, to) ==
    IF st.fault
    THEN [cls |-> st.cls, own |-> st.own, heap |-> st.heap,
          result |-> False, fault |-> TRUE]
    ELSE ThenGenDiff(st, genDiff(st.heap, i, from, to, StackLimit(st.heap)))

\* the seeding block of genDiff(target, from, to), or nothing
Seeding(st, i) ==
    IF st.heap[i].lastVersion = 0 THEN SeedLoop(st, i, 1) ELSE st

(***************************************************************************)
(* SpecSeed: one class with the marked properties hp and mp and two        *)
(* instances of it.  An instance is constructed (its constructor assigns   *)
(* or defines its fields), assigned to, and passed to genDiff(target,      *)
(* from, to).                                                              *)
(*   obs    the class                                                      *)
(*   obs2   per instance, its own properties                               *)
(*   wnd    per instance, whether it is constructed and how many           *)
(*          genDiff(target, from, to) calls it has been passed to          *)
(*   heap   per instance, its ReplicateObject                              *)
(***************************************************************************)
SeedMaxVersion == 1
SeedSteps == 3

Insts == {"i1", "i2"}
SeedNames == <<"hp", "mp">>
SeedDefs == {Undefined, Num(0), Num(100)}
SeedDescriptors == {NoDescriptor, DataDescriptor(Num(0)), DataDescriptor(Num(100))}
SeedVals == {Num(0), Num(100)}

\* hp has any default and any prototype property; the prototype holds mp's
\* default
SeedClasses ==
    {[init |-> FALSE,
      marks |-> <<[name |-> "hp", def |-> d], [name |-> "mp", def |-> m]>>,
      desc |-> [n \in {"hp", "mp"} |->
                  IF n = "hp" THEN p ELSE DataDescriptor(m)]] :
        d \in SeedDefs, p \in SeedDescriptors, m \in SeedVals}

SeedState == [cls |-> obs, own |-> obs2, heap |-> heap, fault |-> FALSE]

\* the constructor's field initialisers, in declaration order: this.name = v
\* (mode "assign") or Object.defineProperty(this, name, {value: v}) ("define")
RECURSIVE ConstructLoop(_, _, _, _, _)
ConstructLoop(st, i, vals, mode, k) ==
    IF k > Len(SeedNames) THEN st
    ELSE ConstructLoop(
             IF vals[SeedNames[k]] = Absent THEN st
             ELSE IF mode = "define"
             THEN [st EXCEPT !.own[i][SeedNames[k]] = vals[SeedNames[k]]]
             ELSE InstanceSet(st, i, SeedNames[k], vals[SeedNames[k]]),
             i, vals, mode, k + 1)

SeedUnchanged == UNCHANGED <<stage, win, pendL, round, heap2, phase>>

InitSeed ==
    /\ obs \in SeedClasses
    /\ obs2 = [i \in Insts |-> [n \in {"hp", "mp"} |-> Absent]]
    /\ wnd = [i \in Insts |-> [made |-> FALSE, calls |-> 0]]
    /\ heap = [i \in Insts |-> NewReplicateObject]
    /\ last = NoOp
    /\ stage = 0
    /\ win = <<>>
    /\ pendL = Undefined
    /\ steps = 0
    /\ phase = ""
    /\ round = 0 /\ heap2 = <<>>

\* the instance and its tracker as the call left them
SeedResult(r) ==
    /\ heap' = r.heap
    /\ obs' = r.cls
    /\ obs2' = r.own

Construct ==
    \E i \in Insts, mode \in {"assign", "define"},
       vals \in [{"hp", "mp"} -> SeedVals \cup {Absent}] :
        /\ Tick(SeedSteps)
        /\ ~wnd[i].made
        /\ i = "i2" => wnd["i1"].made
        /\ SeedResult(ConstructLoop(SeedState, i, vals, mode, 1))
        /\ wnd' = [wnd EXCEPT ![i].made = TRUE]
        /\ last' = [NoOp EXCEPT !.op = "construct", !.obj = i]
        /\ SeedUnchanged

AssignResult(i, name, v, r) ==
    /\ SeedResult(r)
    /\ last' = [NoOp EXCEPT !.op = "assign", !.obj = i, !.key = name,
                            !.val = v, !.fault = r.fault]

Assign ==
    \E i \in Insts, k \in 1..Len(SeedNames), v \in SeedVals :
        /\ Tick(SeedSteps)
        /\ wnd[i].made
        /\ AssignResult(i, SeedNames[k], v,
                        InstanceSet(SeedState, i, SeedNames[k], v))
        /\ UNCHANGED wnd
        /\ SeedUnchanged

ComputeDeltaResult(i, f, t, r) ==
    /\ SeedResult(r)
    /\ last' = [NoOp EXCEPT !.op = "computeDelta", !.obj = i, !.from = f,
                            !.to = t, !.result = r.result, !.fault = r.fault]

ComputeDelta ==
    \E i \in Insts, f \in 0..SeedMaxVersion, t \in 0..SeedMaxVersion :
        /\ Tick(SeedSteps)
        /\ wnd[i].made
        /\ ComputeDeltaResult(i, f, t,
               module_genDiff(Seeding(SeedState, i), i, f, t))
        /\ wnd' = [wnd EXCEPT ![i].calls = IF @ < 2 THEN @ + 1 ELSE @]
        /\ SeedUnchanged

NextSeed == Construct \/ Assign \/ ComputeDelta

SpecSeed == InitSeed /\ [][NextSeed]_vars

(***************************************************************************)
(* C14  First-use seeding.  On the first genDiff(target, from, to) of an   *)
(* instance, the first of its class or a later one, every marked property  *)
(* gets a slot holding the instance's current value, whatever the value    *)
(* (0 and false included).  A value that differs from the schema default   *)
(* is in that first diff when from <= to; a value equal to the default is  *)
(* seeded clean, so it is not in the first diff when 0 < from <= to.       *)
(***************************************************************************)
C14_FirstUseSeeding ==
    [][(last'.op = "computeDelta" /\ wnd[last'.obj].calls = 0)
       => \A k \in 1..Len(obs.marks) :
            LET i == last'.obj
                name == obs.marks[k].name
                cur == InstanceGet(obs, obs2, heap, i, name)
            IN  /\ name \in SlotKeys(heap'[i])
                /\ Slot(heap'[i], name).data = cur
                /\ (cur # obs.marks[k].def /\ last'.from <= last'.to)
                     => /\ name \in DiffKeys(last'.result)
                        /\ DiffGet(last'.result, name) = cur
                /\ (cur = obs.marks[k].def /\ 0 < last'.from
                      /\ last'.from <= last'.to)
                     => name \notin DiffKeys(last'.result)]_vars

(***************************************************************************)
(* C20  Seeding at most once per instance (under SpecSeed).  After the     *)
(* first genDiff(target, from, to) of an instance, any later one, whatever *)
(* its from and to, performs no seeding step: it leaves the instance and   *)
(* its tracker as the tracker's own genDiff(from, to) alone leaves them.   *)
(***************************************************************************)
C20_SeedOnce ==
    [][(last'.op = "computeDelta" /\ wnd[last'.obj].calls >= 1)
       => LET r == genDiff(heap, last'.obj, last'.from, last'.to,
                           StackLimit(heap))
          IN  /\ heap' = r.heap
              /\ last'.result = r.result
              /\ obs2' = obs2]_vars

\* every slot of every tracker has version <= lastVersion
VersionBound(h) ==
    \A o \in DOMAIN h : \A k \in SlotKeys(h[o]) :
        Slot(h[o], k).version <= h[o].lastVersion

\* a slot's version changes only inside a genDiff that finds the slot dirty,
\* which stamps it with toVersion; a new slot starts at version 0
VersionStep ==
    \A o \in DOMAIN heap : \A k \in SlotKeys(heap'[o]) :
        IF k \in SlotKeys(heap[o])
        THEN Slot(heap'[o], k).version # Slot(heap[o], k).version
                => /\ last'.op = "genDiff"
                   /\ Slot(heap[o], k).changed
                   /\ Slot(heap'[o], k).version = last'.to
        ELSE Slot(heap'[o], k).version = 0

C16_PendingNotify ==
    /\ \A o \in DOMAIN heap :
          heap[o].hasNewChange <=> DirtyKeys(heap[o]) # {}
    /\ (last.op = "genDiff" /\ IsMap(last.result))
          => /\ ~heap[last.obj].hasNewChange
             /\ heap[last.obj].lastVersion = last.to

\* the diff without key k
Without(diff, k) ==
    LET RECURSIVE go(_)
        go(i) == IF i > Len(diff.map) THEN <<>>
                 ELSE (IF diff.map[i].key = k THEN <<>> ELSE <<diff.map[i]>>)
                      \o go(i + 1)
    IN  Map(go(1))

\* the payload under k is a mapping and the target's property under k is
\* neither structured nor callable
Mismatch(diff, target, k) ==
    /\ IsMap(DiffGet(diff, k))
    /\ ~IsObj(TargetGet(target, k))
    /\ ~IsFn(TargetGet(target, k))

(***************************************************************************)
(* C17  Structural mismatch is local (under SpecApply).  When the payload  *)
(* under a key is a mapping and the target's property under that key is    *)
(* neither structured nor callable, applyDiff leaves that property as it   *)
(* was (absent stays absent) and applies every other key exactly as if the *)
(* mismatching key were not in the diff; nothing is thrown.                *)
(***************************************************************************)
C17_MismatchLocal ==
    phase = "once"
    => \A k \in DiffKeys(wnd) :
          Mismatch(wnd, heap2, k)
          => /\ ~last.fault
             /\ k \in last.visited
             /\ (k \in DOMAIN obs.props) <=> (k \in DOMAIN heap2.props)
             /\ TargetGet(obs, k) = TargetGet(heap2, k)
             /\ obs = applyDiff(Without(wnd, k), heap2).target

\* the payload under a mismatched; the later key b was applied and changed
\* the target
C17_Witness ==
    /\ phase = "once"
    /\ Mismatch(wnd, heap2, "a")
    /\ "a" \in last.visited
    /\ "b" \in DiffKeys(wnd)
    /\ TargetGet(obs, "b") # TargetGet(heap2, "b")

\* the keys and the data of the slots of tracker o
SlotData(h, o) ==
    [i \in 1..Len(h[o].dataMap) |->
        [key |-> h[o].dataMap[i].key, data |-> h[o].dataMap[i].data]]

(***************************************************************************)
(* C18  Bubbling never changes data (under SpecGraph).  A tracked          *)
(* assignment to a tracker changes the data of no slot of the parents it   *)
(* relays the notification to, also after the parent slot that held the    *)
(* tracker was overwritten with a scalar; only flags change there.         *)
(***************************************************************************)
C18_BubbleKeepsData ==
    [][last'.op = "set"
       => \A n \in 1..Len(last'.notified) :
             LET p == last'.notified[n][2]
             IN  p # last'.obj => SlotData(heap', p) = SlotData(heap, p)]_vars

(***************************************************************************)
(* SpecCycle: two trackers A and B, empty at first, whose slots receive    *)
(* untracked seeds (propertyChanged with force) and tracked assignments of *)
(* scalars, undefined and each other, so that A and B can come to store    *)
(* each other.                                                             *)
(***************************************************************************)
CycleSteps == 4

CycleObjs == {"A", "B"}

CycleSeeds == {<<"A", "f", Ref("B")>>, <<"B", "g", Ref("A")>>,
               <<"A", "x", Num(1)>>}

CycleAssign == {<<"A", "f", Ref("B")>>, <<"B", "g", Ref("A")>>,
                <<"A", "x", Num(2)>>, <<"B", "y", Num(2)>>,
                <<"A", "f", Undefined>>}

CycleUnchanged ==
    UNCHANGED <<stage, pendL, obs, round, heap2, obs2, wnd, phase>>

InitCycle ==
    /\ heap = [o \in CycleObjs |-> NewReplicateObject]
    /\ last = NoOp
    /\ stage = 0
    /\ win = [o \in CycleObjs |-> NewWindow]
    /\ pendL = Undefined
    /\ steps = 0
    /\ phase = ""
    /\ Idle

CycleSeed ==
    \E s \in CycleSeeds :
        /\ Tick(CycleSteps)
        /\ DoSeed(s[1], s[2], s[3])
        /\ CycleUnchanged

CycleSet ==
    \E s \in CycleAssign :
        /\ Tick(CycleSteps)
        /\ DoSet(s[1], s[2], s[3])
        /\ CycleUnchanged

NextCycle == CycleSeed \/ CycleSet

SpecCycle == InitCycle /\ [][NextCycle]_vars

\* the number of notifications that the call relayed to tracker p
NotifiedTo(notified, p) ==
    Cardinality({n \in 1..Len(notified) : notified[n][2] = p})

(***************************************************************************)
(* C19  Bubbling terminates.  Every setProperty / propertyChanged call     *)
(* returns and relays its notification to each tracker at most once, in    *)
(* every graph built by tracked and untracked assignments, two trackers    *)
(* that store each other included.                                         *)
(***************************************************************************)
C19_BubbleTerminates ==
    last.op \in {"set", "seed"}
    => /\ ~last.fault
       /\ \A p \in DOMAIN heap : NotifiedTo(last.notified, p) <= 1

====
